---- MODULE Spec2Model ----
(***************************************************************************)
(* Model of the circuit solver pipeline (engine/solver.py and              *)
(* engine/phases/*.py): graph construction, spanning tree selection,       *)
(* incidence / cut-set / tie-set matrices, equation assembly, and the      *)
(* orchestrator that sequences them.                                       *)
(*                                                                         *)
(* Conventions: Python lists are sequences; indices are 1-based here       *)
(* (0-based in the code).  A numpy matrix is a record [nr, nc, e] with     *)
(* e a function on (1..nr) \X (1..nc), so that the shape of an empty       *)
(* matrix is kept.  Python's None is the record None.                      *)
(***************************************************************************)
EXTENDS Integers, Sequences, FiniteSets, TLC

None == [none |-> TRUE]

\* an exception that leaves the function raising it
Exception(name) == [exception |-> name]

(***************************************************************************)
(* numpy                                                                   *)
(***************************************************************************)
\* the index pairs of an nr x nc array
Cells(nr, nc) == (1..nr) \X (1..nc)

\* np.zeros((nr, nc))
zeros(nr, nc) == [nr |-> nr, nc |-> nc, e |-> [p \in Cells(nr, nc) |-> 0]]

\* np.eye(n)
eye(n) == [nr |-> n, nc |-> n, e |-> [p \in Cells(n, n) |-> IF p[1] = p[2] THEN 1 ELSE 0]]

\* A[:, lo-1:hi] (column slice, clamped to the matrix as numpy clamps it)
col_slice(A, lo, hi) ==
    LET h  == IF hi > A.nc THEN A.nc ELSE hi
        nc == IF h >= lo THEN h - lo + 1 ELSE 0
    IN  [nr |-> A.nr, nc |-> nc,
         e |-> [p \in Cells(A.nr, nc) |-> A.e[<<p[1], lo + p[2] - 1>>]]]

\* np.delete(A, r-1, axis=0)
delete_row(A, r) ==
    [nr |-> A.nr - 1, nc |-> A.nc,
     e |-> [p \in Cells(A.nr - 1, A.nc) |->
               A.e[<<IF p[1] < r THEN p[1] ELSE p[1] + 1, p[2]>>]]]

\* np.hstack((A, B))
hstack(A, B) ==
    [nr |-> A.nr, nc |-> A.nc + B.nc,
     e |-> [p \in Cells(A.nr, A.nc + B.nc) |->
               IF p[2] <= A.nc THEN A.e[p] ELSE B.e[<<p[1], p[2] - A.nc>>]]]

\* A.T
transpose(A) ==
    [nr |-> A.nc, nc |-> A.nr, e |-> [p \in Cells(A.nc, A.nr) |-> A.e[<<p[2], p[1]>>]]]

\* -A
neg(A) == [A EXCEPT !.e = [p \in DOMAIN A.e |-> 0 - A.e[p]]]

RECURSIVE DotSum(_, _, _, _, _)
DotSum(A, B, i, j, k) ==
    IF k = 0 THEN 0
    ELSE DotSum(A, B, i, j, k - 1) + A.e[<<i, k>>] * B.e[<<k, j>>]

\* np.dot(A, B)
dot(A, B) ==
    [nr |-> A.nr, nc |-> B.nc,
     e |-> [p \in Cells(A.nr, B.nc) |-> DotSum(A, B, p[1], p[2], A.nc)]]

\* A with row r and column c struck out
Minor(A, r, c) ==
    [nr |-> A.nr - 1, nc |-> A.nc - 1,
     e |-> [p \in Cells(A.nr - 1, A.nc - 1) |->
               A.e[<<IF p[1] < r THEN p[1] ELSE p[1] + 1,
                     IF p[2] < c THEN p[2] ELSE p[2] + 1>>]]]

RECURSIVE Det(_)
RECURSIVE DetSum(_, _)
DetSum(A, j) ==
    IF j = 0 THEN 0
    ELSE DetSum(A, j - 1)
         + (IF j % 2 = 1 THEN 1 ELSE 0 - 1) * A.e[<<1, j>>] * Det(Minor(A, 1, j))

\* determinant of a square matrix (Laplace expansion along the first row)
Det(A) == IF A.nr = 0 THEN 1 ELSE DetSum(A, A.nc)

Cofactor(A, i, j) ==
    (IF (i + j) % 2 = 0 THEN 1 ELSE 0 - 1) * Det(Minor(A, i, j))

Abs(x) == IF x < 0 THEN 0 - x ELSE x

\* the matrices np.linalg.inv accepts: square and non-singular
Invertible(A) == A.nr = A.nc /\ Det(A) # 0

\* np.linalg.inv(A) for an invertible A: adj(A) / det(A).  The quotient is
\* exact on every matrix the pipeline inverts (UnimodularWhenInverted).
inv(A) ==
    LET d == Det(A)
    IN  [nr |-> A.nr, nc |-> A.nc,
         e |-> [p \in Cells(A.nr, A.nc) |->
                   (Cofactor(A, p[2], p[1]) * (IF d < 0 THEN 0 - 1 ELSE 1)) \div Abs(d)]]

(***************************************************************************)
(* networkx.MultiGraph, as far as the pipeline uses it.  A graph is        *)
(* [nodes, edges]: the nodes in insertion order and the edges              *)
(* [u, v, key, type, weight] in insertion order.                           *)
(***************************************************************************)
SeqSet(s) == {s[i] : i \in 1..Len(s)}

SameEdge(e, u, v, key) ==
    /\ e.key = key
    /\ \/ e.u = u /\ e.v = v
       \/ e.u = v /\ e.v = u

\* G.add_node(n): a node already present keeps its place
add_node(G, n) ==
    IF n \in SeqSet(G.nodes) THEN G ELSE [G EXCEPT !.nodes = Append(@, n)]

\* G.add_edge(u, v, key=key, type=type): endpoints that are no nodes yet become
\* nodes; an edge with this key between the same two nodes has its attributes
\* updated, otherwise the edge is new
add_edge(G, u, v, key, type) ==
    LET G1 == add_node(add_node(G, u), v)
        new == [u |-> u, v |-> v, key |-> key, type |-> type, weight |-> None]
    IN  IF \E i \in 1..Len(G1.edges) : SameEdge(G1.edges[i], u, v, key)
        THEN [G1 EXCEPT !.edges =
                 [i \in 1..Len(G1.edges) |->
                     IF SameEdge(G1.edges[i], u, v, key)
                     THEN [G1.edges[i] EXCEPT !.type = type]
                     ELSE G1.edges[i]]]
        ELSE [G1 EXCEPT !.edges = Append(@, new)]

RECURSIVE AddBranches(_, _, _)
AddBranches(G, branches, k) ==
    IF k > Len(branches) THEN G
    ELSE AddBranches(
             add_edge(G, branches[k].from, branches[k].to, branches[k].id,
                      branches[k].type),
             branches, k + 1)

RECURSIVE Grow(_, _)
\* the nodes reachable from the set S along the edges of G
Grow(G, S) ==
    LET T == S \cup {e.v : e \in {x \in SeqSet(G.edges) : x.u \in S}}
                \cup {e.u : e \in {x \in SeqSet(G.edges) : x.v \in S}}
    IN  IF T = S THEN S ELSE Grow(G, T)

\* is_connected that overlooks the nodes no edge touches
is_connected_isolated_ignored(G) ==
    \/ G.edges = <<>>
    \/ Grow(G, {G.edges[1].u}) = {e.u : e \in SeqSet(G.edges)} \cup {e.v : e \in SeqSet(G.edges)}

\* nx.is_connected(G), for a graph with at least one node
is_connected(G) == Grow(G, {G.nodes[1]}) = SeqSet(G.nodes)

NotConnectedError ==
    [status  |-> "error",
     message |-> "Circuit is not connected. All nodes must form a connected graph with node '0' as reference."]

\* build_graph(circuit_data): [graph, error], or [raised] when nx.is_connected
\* raises NetworkXPointlessConcept on a graph without nodes
build_graph(nodes, branches) ==
    LET G == AddBranches([nodes |-> nodes, edges |-> <<>>], branches, 1)
    IN  IF Len(G.nodes) = 0
        THEN [raised |-> Exception("NetworkXPointlessConcept")]
        ELSE IF ~is_connected(G)
             THEN [graph |-> None, error |-> NotConnectedError]
             ELSE [graph |-> G, error |-> None]

(***************************************************************************)
(* Phase 2: spanning tree selection                                        *)
(***************************************************************************)
\* the weights without the preference for voltage sources
Weight_no_source_preference(type) ==
    IF type = "I" THEN 100 ELSE 1

\* the weight select_tree assigns to an edge of this type
Weight(type) ==
    IF type = "V" THEN 0
    ELSE IF type = "I" THEN 100
    ELSE 1

\* the first loop of select_tree: every edge gets its weight
assign_weights(G) ==
    [G EXCEPT !.edges =
        [i \in 1..Len(G.edges) |-> [G.edges[i] EXCEPT !.weight = Weight(G.edges[i].type)]]]

Other(e, n) == IF e.u = n THEN e.v ELSE e.u

RECURSIVE ByNeighbour(_, _)
\* the edges at node n, grouped by neighbour in the order the neighbours were
\* first joined to n, and inside a group in insertion order (adj[n] iteration)
ByNeighbour(inc, n) ==
    IF inc = <<>> THEN <<>>
    ELSE LET nbr == Other(inc[1], n)
         IN  SelectSeq(inc, LAMBDA e : Other(e, n) = nbr)
             \o ByNeighbour(SelectSeq(inc, LAMBDA e : Other(e, n) # nbr), n)

RECURSIVE EdgesFrom(_, _)
\* G.edges(keys=True, data=True): node by node in insertion order, each edge
\* reported at its first endpoint in that order
EdgesFrom(G, k) ==
    IF k > Len(G.nodes) THEN <<>>
    ELSE LET n    == G.nodes[k]
             seen == {G.nodes[i] : i \in 1..(k - 1)}
             inc  == SelectSeq(G.edges, LAMBDA e : e.u = n \/ e.v = n)
         IN  SelectSeq(ByNeighbour(inc, n), LAMBDA e : Other(e, n) \notin seen)
             \o EdgesFrom(G, k + 1)

edges_iter(G) == EdgesFrom(G, 1)

\* sorted(edges, key=weight): a stable sort; the weights are 0, 1 and 100
sort_by_weight(es) ==
    SelectSeq(es, LAMBDA e : e.weight = 0)
    \o SelectSeq(es, LAMBDA e : e.weight = 1)
    \o SelectSeq(es, LAMBDA e : e.weight = 100)

RECURSIVE Kruskal_weak_union(_, _, _)
\* Kruskal's loop with a union that moves only the edge's endpoint, not its
\* whole subtree
Kruskal_weak_union(es, k, comp) ==
    IF k > Len(es) THEN <<>>
    ELSE LET e == es[k]
         IN  IF comp[e.u] # comp[e.v]
             THEN <<e.key>>
                  \o Kruskal_weak_union(es, k + 1, [comp EXCEPT ![e.v] = comp[e.u]])
             ELSE Kruskal_weak_union(es, k + 1, comp)

RECURSIVE Kruskal(_, _, _)
\* Kruskal's loop over the sorted edges; comp maps a node to its subtree (the
\* union-find structure).  Yields the keys of the edges taken.
Kruskal(es, k, comp) ==
    IF k > Len(es) THEN <<>>
    ELSE LET e == es[k]
         IN  IF comp[e.u] # comp[e.v]
             THEN <<e.key>>
                  \o Kruskal(es, k + 1,
                             [n \in DOMAIN comp |->
                                 IF comp[n] = comp[e.v] THEN comp[e.u] ELSE comp[n]])
             ELSE Kruskal(es, k + 1, comp)

\* nx.minimum_spanning_edges(graph, keys=True, data=True, weight='weight'),
\* reduced to the keys (tree_branch_ids)
minimum_spanning_keys(G) ==
    Kruskal(sort_by_weight(edges_iter(G)), 1, [n \in SeqSet(G.nodes) |-> n])

\* select_tree that hands back the branches in their input order
select_tree_input_order(G, branches) ==
    LET tree_branch_ids == SeqSet(minimum_spanning_keys(assign_weights(G)))
        twigs == SelectSeq(branches, LAMBDA b : b.id \in tree_branch_ids)
        links == SelectSeq(branches, LAMBDA b : b.id \notin tree_branch_ids)
    IN  [twigs |-> twigs, links |-> links, sorted_branches |-> branches]

\* select_tree(graph, branches): twigs, links, sorted_branches
select_tree(G, branches) ==
    LET tree_branch_ids == SeqSet(minimum_spanning_keys(assign_weights(G)))
        twigs == SelectSeq(branches, LAMBDA b : b.id \in tree_branch_ids)
        links == SelectSeq(branches, LAMBDA b : b.id \notin tree_branch_ids)
    IN  [twigs |-> twigs, links |-> links, sorted_branches |-> twigs \o links]

(***************************************************************************)
(* Phase 3: matrix formation                                               *)
(***************************************************************************)
\* {x: i for i, x in enumerate(xs)}: a key met twice keeps its last index
index_map(xs) ==
    [x \in SeqSet(xs) |-> CHOOSE i \in 1..Len(xs) :
        xs[i] = x /\ \A j \in (i + 1)..Len(xs) : xs[j] # x]

RECURSIVE FillIncidence(_, _, _, _, _)
\* the loop of get_incidence_matrix that fills A_full branch by branch; a
\* lookup of an endpoint that node_map does not hold raises KeyError
FillIncidence(A, branches, k, node_map, branch_map) ==
    IF k > Len(branches) THEN [A_full |-> A]
    ELSE LET b == branches[k]
         IN  IF b.from \notin DOMAIN node_map \/ b.to \notin DOMAIN node_map
             THEN [raised |-> Exception("KeyError")]
             ELSE LET b_idx == branch_map[b.id]
                      u_idx == node_map[b.from]
                      v_idx == node_map[b.to]
                      A1 == [A EXCEPT !.e[<<u_idx, b_idx>>] = 1]
                      A2 == [A1 EXCEPT !.e[<<v_idx, b_idx>>] = 0 - 1]
                  IN  FillIncidence(A2, branches, k + 1, node_map, branch_map)

\* node_map.get('0', n_nodes - 1), as a 1-based row
ref_index(nodes) ==
    IF "0" \in SeqSet(nodes) THEN index_map(nodes)["0"] ELSE Len(nodes)

\* get_incidence_matrix(graph, nodes, branches): [A_reduced, A_full,
\* ref_node_idx], or [raised]
get_incidence_matrix(nodes, branches) ==
    LET filled == FillIncidence(zeros(Len(nodes), Len(branches)), branches, 1,
                                index_map(nodes),
                                index_map([i \in 1..Len(branches) |-> branches[i].id]))
    IN  IF "raised" \in DOMAIN filled THEN filled
        ELSE [A_reduced    |-> delete_row(filled.A_full, ref_index(nodes)),
              A_full       |-> filled.A_full,
              ref_node_idx |-> ref_index(nodes)]

SingularError ==
    [status  |-> "error",
     message |-> "Singular matrix error: Cannot invert tree submatrix. Check circuit topology."]

\* A_t = A_red[:, :n_twigs] and A_l = A_red[:, n_twigs:]
tree_block(A_red, n_twigs) == col_slice(A_red, 1, n_twigs)
link_block(A_red, n_twigs) == col_slice(A_red, n_twigs + 1, A_red.nc)

\* Q_l = -np.dot(A_t_inv, A_l)
cutset_links(A_t_inv, A_l) == neg(dot(A_t_inv, A_l))

\* get_cutset_matrix that hands back the identity block next to the error
get_cutset_matrix_partial(A_red, n_twigs, n_links) ==
    LET A_t == tree_block(A_red, n_twigs)
        A_l == link_block(A_red, n_twigs)
    IN  IF ~Invertible(A_t)
        THEN [Q |-> hstack(eye(n_twigs), zeros(n_twigs, n_links)), error |-> SingularError]
        ELSE [Q |-> hstack(eye(n_twigs), cutset_links(inv(A_t), A_l)), error |-> None]

\* get_cutset_matrix(A_red, n_twigs, n_links): [Q, error]; np.linalg.inv raises
\* LinAlgError on a matrix that is not square or is singular
get_cutset_matrix(A_red, n_twigs, n_links) ==
    LET A_t == tree_block(A_red, n_twigs)
        A_l == link_block(A_red, n_twigs)
    IN  IF ~Invertible(A_t)
        THEN [Q |-> None, error |-> SingularError]
        ELSE [Q |-> hstack(eye(n_twigs), cutset_links(inv(A_t), A_l)), error |-> None]

\* get_tieset_matrix without the negation of the transpose
get_tieset_matrix_unnegated(Q_l, n_twigs, n_links) ==
    hstack(transpose(Q_l), eye(n_links))

\* get_tieset_matrix with its two blocks in the wrong order
get_tieset_matrix_blocks_swapped(Q_l, n_twigs, n_links) ==
    hstack(eye(n_links), neg(transpose(Q_l)))

\* get_tieset_matrix(Q_l, n_twigs, n_links)
get_tieset_matrix(Q_l, n_twigs, n_links) ==
    hstack(neg(transpose(Q_l)), eye(n_links))

(***************************************************************************)
(* Phase 4: equation formulation.  A symbol is <<"V", id>> or <<"I", id>>;  *)
(* an equation is a record, implicitly equated to zero.                    *)
(***************************************************************************)
V_sym(sorted_branches) == [i \in 1..Len(sorted_branches) |-> <<"V", sorted_branches[i].id>>]
I_sym(sorted_branches) == [i \in 1..Len(sorted_branches) |-> <<"I", sorted_branches[i].id>>]

\* row i of M times the symbols: sum over j of M[i, j] * sym[j]
RowEquation(kind, M, i, sym) ==
    [kind |-> kind, terms |-> [j \in 1..Len(sym) |-> [coef |-> M.e[<<i, j>>], sym |-> sym[j]]]]

\* the V-I relations without the inductor case
ComponentEquations_no_inductor(b, V, I) ==
    IF b.type = "R" THEN <<[kind |-> "R", V |-> V, I |-> I]>>
    ELSE IF b.type = "C" THEN <<[kind |-> "C", V |-> V, I |-> I]>>
    ELSE IF b.type = "V" THEN <<[kind |-> "V", V |-> V]>>
    ELSE IF b.type = "I" THEN <<[kind |-> "I", I |-> I]>>
    ELSE <<>>

\* the V-I relation of branch i: one equation for each of the five component
\* types, none for any other type
ComponentEquations(b, V, I) ==
    IF b.type = "R" THEN <<[kind |-> "R", V |-> V, I |-> I]>>
    ELSE IF b.type = "L" THEN <<[kind |-> "L", V |-> V, I |-> I]>>
    ELSE IF b.type = "C" THEN <<[kind |-> "C", V |-> V, I |-> I]>>
    ELSE IF b.type = "V" THEN <<[kind |-> "V", V |-> V]>>
    ELSE IF b.type = "I" THEN <<[kind |-> "I", I |-> I]>>
    ELSE <<>>

RECURSIVE ComponentLoop(_, _)
ComponentLoop(sorted_branches, k) ==
    IF k = 0 THEN <<>>
    ELSE ComponentLoop(sorted_branches, k - 1)
         \o ComponentEquations(sorted_branches[k], V_sym(sorted_branches)[k],
                               I_sym(sorted_branches)[k])

\* build_equations(sorted_branches, Q, B, n_twigs, n_links): [equations, unknowns]
build_equations(sorted_branches, Q, B, n_twigs, n_links) ==
    [equations |->
        [i \in 1..n_twigs |-> RowEquation("KCL", Q, i, I_sym(sorted_branches))]
        \o [i \in 1..n_links |-> RowEquation("KVL", B, i, V_sym(sorted_branches))]
        \o ComponentLoop(sorted_branches, Len(sorted_branches)),
     unknowns |-> V_sym(sorted_branches) \o I_sym(sorted_branches)]

(***************************************************************************)
(* The circuits the pipeline is run on                                     *)
(***************************************************************************)
\* the largest number of branches of a circuit
MaxBranches == 3

\* the node lists: with and without a node '0', and lists that leave out a
\* node the branches may name
NodeLists == {<<>>, <<"0", "1", "2">>, <<"1", "2">>, <<"2">>}

\* the (from, to) pairs of a branch: the triangle 1->0, 1->2, 2->0 of the
\* series RLC circuit and a self-loop at node 2
EndPairs == {<<"1", "0">>, <<"1", "2">>, <<"2", "0">>, <<"2", "2">>}

PassiveTypes == <<"R", "L", "C">>

\* the types branch k may have: a source, or the k-th passive type in turn
TypesAt(k) == {"V", "I", PassiveTypes[((k - 1) % 3) + 1]}

BranchId(k) == "b" \o ToString(k)

\* the branches that may stand at place k of the branch list
BranchesAt(k) ==
    {[id |-> BranchId(k), from |-> p[1], to |-> p[2], type |-> t] :
        p \in EndPairs, t \in TypesAt(k)}

RECURSIVE BranchListsOfLen(_)
BranchListsOfLen(n) ==
    IF n = 0 THEN {<<>>}
    ELSE {Append(bs, b) : bs \in BranchListsOfLen(n - 1), b \in BranchesAt(n)}

\* the branch lists with unique ids
UniqueBranchLists == UNION {BranchListsOfLen(n) : n \in 0..MaxBranches}

\* a branch list whose last branch repeats the id and the type of the first
\* (input the pipeline accepts without complaint)
RepeatFirstId(bs) ==
    [bs EXCEPT ![Len(bs)].id = bs[1].id, ![Len(bs)].type = bs[1].type]

\* the largest number of branches of a circuit that name an undeclared node
MaxDangling == 1

\* the branches of bs with an endpoint that is not in the node list ns
Dangling(ns, bs) ==
    {k \in 1..Len(bs) : bs[k].from \notin SeqSet(ns) \/ bs[k].to \notin SeqSet(ns)}

(***************************************************************************)
(* solve_circuit                                                           *)
(***************************************************************************)
VARIABLES
    pc,               \* the phase solve_circuit is about to run, or how it ended
    nodes, branches,  \* circuit_data
    graph, twigs, links, sorted_branches, n_twigs, n_links,
    A_red, A_full, ref_node, Q, B, equations, unknowns, sol,
    error,            \* the error the last phase reported
    result,           \* the dictionary solve_circuit returned
    raised,           \* the exception that left solve_circuit
    stages            \* the phases called so far, in order

vars == <<pc, nodes, branches, graph, twigs, links, sorted_branches, n_twigs,
          n_links, A_red, A_full, ref_node, Q, B, equations, unknowns, sol,
          error, result, raised, stages>>

inputs == <<nodes, branches>>
tree_vars == <<twigs, links, sorted_branches, n_twigs, n_links>>
incidence_vars == <<A_red, A_full, ref_node>>
equation_vars == <<equations, unknowns>>

Init ==
    /\ pc = "build_graph"
    /\ \/ /\ nodes \in NodeLists
          /\ branches \in UniqueBranchLists
          /\ Cardinality(Dangling(nodes, branches)) <= MaxDangling
       \/ /\ nodes = <<"0", "1", "2">>
          /\ \E bs \in UniqueBranchLists :
                /\ Len(bs) >= 2
                /\ branches = RepeatFirstId(bs)
    /\ graph = None /\ twigs = None /\ links = None /\ sorted_branches = None
    /\ n_twigs = None /\ n_links = None
    /\ A_red = None /\ A_full = None /\ ref_node = None
    /\ Q = None /\ B = None /\ equations = None /\ unknowns = None /\ sol = None
    /\ error = None /\ result = None /\ raised = None
    /\ stages = <<>>

\* an error return that drops the message of the phase
ErrorResult_no_message(err) == [status |-> "error"]

\* "if error: return error"
ErrorResult(err) == err

\* Phase 1
BuildGraph ==
    /\ pc = "build_graph"
    /\ stages' = Append(stages, "build_graph")
    /\ LET r == build_graph(nodes, branches)
       IN  IF "raised" \in DOMAIN r
           THEN /\ raised' = r.raised
                /\ pc' = "raised"
                /\ UNCHANGED <<graph, error, result>>
           ELSE /\ graph' = r.graph
                /\ error' = r.error
                /\ IF r.error # None
                   THEN result' = ErrorResult(r.error) /\ pc' = "returned"
                   ELSE result' = result /\ pc' = "select_tree"
                /\ UNCHANGED raised
    /\ UNCHANGED <<inputs, tree_vars, incidence_vars, Q, B, equation_vars, sol>>

\* Phase 2
SelectTree ==
    /\ pc = "select_tree"
    /\ stages' = Append(stages, "select_tree")
    /\ LET r == select_tree(graph, branches)
       IN  /\ graph' = assign_weights(graph)
           /\ twigs' = r.twigs
           /\ links' = r.links
           /\ sorted_branches' = r.sorted_branches
           /\ n_twigs' = Len(r.twigs)
           /\ n_links' = Len(r.links)
    /\ pc' = "get_incidence_matrix"
    /\ UNCHANGED <<inputs, incidence_vars, Q, B, equation_vars, sol, error, result, raised>>

\* Phase 3a
IncidenceMatrix ==
    /\ pc = "get_incidence_matrix"
    /\ stages' = Append(stages, "get_incidence_matrix")
    /\ LET r == get_incidence_matrix(nodes, sorted_branches)
       IN  IF "raised" \in DOMAIN r
           THEN /\ raised' = r.raised
                /\ pc' = "raised"
                /\ UNCHANGED incidence_vars
           ELSE /\ A_red' = r.A_reduced
                /\ A_full' = r.A_full
                /\ ref_node' = r.ref_node_idx
                /\ pc' = "get_cutset_matrix"
                /\ UNCHANGED raised
    /\ UNCHANGED <<inputs, graph, tree_vars, Q, B, equation_vars, sol, error, result>>

\* Phase 3b
CutsetMatrix ==
    /\ pc = "get_cutset_matrix"
    /\ stages' = Append(stages, "get_cutset_matrix")
    /\ LET r == get_cutset_matrix(A_red, n_twigs, n_links)
       IN  /\ Q' = r.Q
           /\ error' = r.error
           /\ IF r.error # None
              THEN result' = ErrorResult(r.error) /\ pc' = "returned"
              ELSE result' = result /\ pc' = "get_tieset_matrix"
    /\ UNCHANGED <<inputs, graph, tree_vars, incidence_vars, B, equation_vars, sol, raised>>

\* Phase 3c
TiesetMatrix ==
    /\ pc = "get_tieset_matrix"
    /\ stages' = Append(stages, "get_tieset_matrix")
    /\ B' = get_tieset_matrix(col_slice(Q, n_twigs + 1, Q.nc), n_twigs, n_links)
    /\ pc' = "build_equations"
    /\ UNCHANGED <<inputs, graph, tree_vars, incidence_vars, Q, equation_vars, sol,
                   error, result, raised>>

\* Phase 4
BuildEquations ==
    /\ pc = "build_equations"
    /\ stages' = Append(stages, "build_equations")
    /\ LET r == build_equations(sorted_branches, Q, B, n_twigs, n_links)
       IN  /\ equations' = r.equations
           /\ unknowns' = r.unknowns
    /\ pc' = "solve_equations"
    /\ UNCHANGED <<inputs, graph, tree_vars, incidence_vars, Q, B, sol, error, result,
                   raised>>

\* Phase 5: sympy.solve answers with a dictionary, or with a list when it
\* finds no solution; which of the two is not modelled
SolveEquations ==
    /\ pc = "solve_equations"
    /\ stages' = Append(stages, "solve_equations")
    /\ sol' \in {"dict", "list"}
    /\ pc' = "convert_to_time_domain"
    /\ UNCHANGED <<inputs, graph, tree_vars, incidence_vars, Q, B, equation_vars, error,
                   result, raised>>

\* Phase 6: sol.items() raises AttributeError on a list
TimeDomain ==
    /\ pc = "convert_to_time_domain"
    /\ stages' = Append(stages, "convert_to_time_domain")
    /\ IF sol = "list"
       THEN raised' = Exception("AttributeError") /\ pc' = "raised"
       ELSE raised' = raised /\ pc' = "generate_plots"
    /\ UNCHANGED <<inputs, graph, tree_vars, incidence_vars, Q, B, equation_vars, sol,
                   error, result>>

\* Phase 7 and the return of the results
GeneratePlots ==
    /\ pc = "generate_plots"
    /\ stages' = Append(stages, "generate_plots")
    /\ result' = [status |-> "success"]
    /\ pc' = "returned"
    /\ UNCHANGED <<inputs, graph, tree_vars, incidence_vars, Q, B, equation_vars, sol,
                   error, raised>>

Next ==
    \/ BuildGraph
    \/ SelectTree
    \/ IncidenceMatrix
    \/ CutsetMatrix
    \/ TiesetMatrix
    \/ BuildEquations
    \/ SolveEquations
    \/ TimeDomain
    \/ GeneratePlots

Spec == Init /\ [][Next]_vars

(***************************************************************************)
(* Vocabulary of the properties                                            *)
(***************************************************************************)
Ran(stage) == stage \in SeqSet(stages)

IsError(r) == "status" \in DOMAIN r /\ r.status = "error"
IsSuccess(r) == "status" \in DOMAIN r /\ r.status = "success"

UniqueIds ==
    \A i, j \in 1..Len(branches) : i # j => branches[i].id # branches[j].id

Declared ==
    \A i \in 1..Len(branches) :
        branches[i].from \in SeqSet(nodes) /\ branches[i].to \in SeqSet(nodes)

\* the nodes of the circuit: the declared ones and the endpoints of branches
CircuitNodes ==
    SeqSet(nodes) \cup {branches[i].from : i \in 1..Len(branches)}
                  \cup {branches[i].to : i \in 1..Len(branches)}

RECURSIVE Joined(_, _)
\* the nodes joined to the set S by the branches bs, in either direction
Joined(bs, S) ==
    LET T == S \cup {b.to : b \in {x \in bs : x.from \in S}}
                \cup {b.from : b \in {x \in bs : x.to \in S}}
    IN  IF T = S THEN S ELSE Joined(bs, T)

\* the nodes in the component of some node of the circuit
SomeComponent ==
    Joined(SeqSet(branches), {CHOOSE n \in CircuitNodes : TRUE})

\* one component
ConnectedCircuit == CircuitNodes # {} /\ SomeComponent = CircuitNodes

\* more than one component
SeveralComponents == CircuitNodes # {} /\ SomeComponent # CircuitNodes

ValidCircuit == UniqueIds /\ Declared /\ ConnectedCircuit

RECURSIVE RowDot(_, _, _, _)
\* sum over j <= k of M[i, j] * x[j]
RowDot(M, i, x, k) ==
    IF k = 0 THEN 0 ELSE RowDot(M, i, x, k - 1) + M.e[<<i, k>>] * x[k]

\* M . x = 0
Annihilates(M, x) == \A i \in 1..M.nr : RowDot(M, i, x, M.nc) = 0

\* the values a branch current or a node potential takes in the checks
SampleValues == {0 - 1, 0, 1}

\* twig t lies on the loop that link l closes with the tree
OnLoop(t, l) ==
    /\ l.to \in Joined(SeqSet(twigs), {l.from})
    /\ l.to \notin Joined(SeqSet(twigs) \ {t}, {l.from})

\* the selection weights as the design states them
ClaimWeight(type) == CASE type = "V" -> 0 [] type = "I" -> 100 [] OTHER -> 1

\* every matrix the pipeline inverts has determinant +1 or -1, so that inv's
\* integer quotient is the exact inverse
UnimodularWhenInverted ==
    (Ran("get_cutset_matrix") /\ Q # None) => Abs(Det(tree_block(A_red, n_twigs))) = 1

(***************************************************************************)
(* Properties                                                              *)
(***************************************************************************)

\* C1: on a connected circuit with unique branch ids and declared endpoints,
\* the cut-set matrix Q satisfies Q . I = 0 for every branch current vector I
\* that obeys Kirchhoff's current law at every non-reference node
\* (A_red . I = 0).
C1_CutsetAnnihilatesKCLCurrents ==
    (Ran("get_cutset_matrix") /\ Q # None /\ ValidCircuit) =>
        \A I \in [1..Len(sorted_branches) -> SampleValues] :
            Annihilates(A_red, I) => Annihilates(Q, I)

\* the branch voltages that the node potentials pot give: V = A_red^T . pot
BranchVoltages(pot) ==
    [j \in 1..A_red.nc |-> RowDot(transpose(A_red), j, pot, A_red.nr)]

\* C2: on a connected circuit with unique branch ids and declared endpoints,
\* the tie-set matrix B satisfies B . V = 0 for every branch voltage vector V
\* given by node potentials (V = A_red^T . e, reference potential 0).
C2_TiesetAnnihilatesPotentialVoltages ==
    (Ran("get_tieset_matrix") /\ ValidCircuit) =>
        \A pot \in [1..A_red.nr -> SampleValues] :
            Annihilates(B, BranchVoltages(pot))

\* C3: on a connected circuit with unique branch ids and declared endpoints,
\* the twigs are the edges of a spanning tree over all nodes (they reach every
\* node and no twig closes a cycle), the links are the remaining branches, no
\* branch is in both lists, |twigs| = |nodes| - 1 and
\* |links| = |branches| - |nodes| + 1.
C3_TwigsAreSpanningTree ==
    (Ran("select_tree") /\ ValidCircuit) =>
        /\ \A n \in SeqSet(nodes) : Joined(SeqSet(twigs), {n}) = SeqSet(nodes)
        /\ \A t \in SeqSet(twigs) : t.to \notin Joined(SeqSet(twigs) \ {t}, {t.from})
        /\ SeqSet(twigs) \cup SeqSet(links) = SeqSet(branches)
        /\ SeqSet(twigs) \cap SeqSet(links) = {}
        /\ Len(twigs) + Len(links) = Len(branches)
        /\ Len(twigs) = Len(nodes) - 1
        /\ Len(links) = Len(branches) - Len(nodes) + 1

C3_Witness ==
    /\ ValidCircuit /\ Ran("select_tree")
    /\ Len(twigs) >= 2 /\ Len(links) >= 1

\* C4: when the multigraph of the declared nodes and the branches has more
\* than one connected component, build_graph returns no graph and an error
\* result, solve_circuit returns that error result, and no matrix and no
\* equation list is ever produced.
C4_DisconnectedRejected ==
    (Ran("build_graph") /\ SeveralComponents) =>
        /\ graph = None
        /\ IsError(error)
        /\ pc = "returned" /\ result = error
        /\ stages = <<"build_graph">>
        /\ A_red = None /\ A_full = None /\ Q = None /\ B = None
        /\ equations = None /\ unknowns = None

C4_Witness ==
    /\ SeveralComponents /\ Declared /\ Len(branches) >= 2
    /\ pc = "returned" /\ IsError(result)

\* C5: a circuit in which some branch has an endpoint that is not a declared
\* node is rejected with a structured error before get_incidence_matrix runs:
\* the pipeline never reaches matrix construction with such a branch and never
\* fails inside it.
C5_UndeclaredEndpointRejectedEarly ==
    (Ran("build_graph") /\ ~Declared) =>
        /\ ~Ran("get_incidence_matrix")
        /\ raised # Exception("KeyError")
        /\ pc \in {"returned", "raised"} => IsError(result)

\* C6: for every valid input, whatever the mix of branch types,
\* build_equations returns nTwigs + nLinks + |branches| = 2 |branches|
\* equations and 2 |branches| unknowns, one V and one I per branch.
C6_SquareSystem ==
    (Ran("build_equations") /\ ValidCircuit) =>
        /\ Len(equations) = n_twigs + n_links + Len(branches)
        /\ Len(equations) = 2 * Len(branches)
        /\ Len(unknowns) = 2 * Len(branches)
        /\ SeqSet(unknowns) =
              {<<"V", branches[i].id>> : i \in 1..Len(branches)}
              \cup {<<"I", branches[i].id>> : i \in 1..Len(branches)}
        /\ Cardinality(SeqSet(unknowns)) = 2 * Len(branches)

C6_Witness ==
    /\ ValidCircuit /\ Ran("build_equations")
    /\ Len(links) >= 1
    /\ {"L", "V", "I"} \subseteq {branches[i].type : i \in 1..Len(branches)}

\* C7: in every tree partition of a connected circuit the weight ordering is
\* respected: a voltage source is a link only if every twig on its loop is a
\* voltage source, a current source is a twig only if every link whose loop
\* passes through it is a current source, and no twig on the loop of a link
\* weighs more than the link (V = 0, I = 100, other = 1): the twigs are a
\* minimum-weight spanning tree.
C7_WeightOrderRespected ==
    (Ran("select_tree") /\ UniqueIds) =>
        \A l \in SeqSet(links) : \A t \in SeqSet(twigs) :
            OnLoop(t, l) =>
                /\ l.type = "V" => t.type = "V"
                /\ t.type = "I" => l.type = "I"
                /\ ClaimWeight(t.type) <= ClaimWeight(l.type)

C7_Witness ==
    /\ UniqueIds /\ Ran("select_tree")
    /\ \E l \in SeqSet(links) : \E t \in SeqSet(twigs) :
          OnLoop(t, l) /\ l.type = "V"
    /\ Len(twigs) >= 2

\* C8: for the tree partition of a connected circuit (unique ids, declared
\* endpoints) the twig block A_t of the reduced incidence matrix is invertible
\* and get_cutset_matrix returns a complete Q and no error; whenever A_t is
\* not invertible, get_cutset_matrix returns an error result of status
\* "error" and no matrix at all.
C8_CutsetCompleteOrError ==
    Ran("get_cutset_matrix") =>
        LET invertible == Invertible(tree_block(A_red, n_twigs))
        IN  /\ ValidCircuit => invertible
            /\ invertible =>
                  /\ error = None
                  /\ Q # None
                  /\ Q.nr = n_twigs /\ Q.nc = Len(branches)
                  /\ DOMAIN Q.e = (1..n_twigs) \X (1..Len(branches))
            /\ ~invertible =>
                  /\ Q = None
                  /\ IsError(error)
                  /\ result = error /\ pc = "returned"

C8_Witness ==
    /\ Ran("get_cutset_matrix")
    /\ ~Invertible(tree_block(A_red, n_twigs))
    /\ Q = None /\ IsError(result)

\* C9: whenever get_cutset_matrix succeeds, Q is nTwigs x |branches| with the
\* identity in its first nTwigs columns, and B is nLinks x |branches| with the
\* identity in its last nLinks columns and the negated transpose of Q's link
\* block in its first nTwigs columns.
C9_BlockStructure ==
    /\ (Ran("get_cutset_matrix") /\ Q # None) =>
          /\ Q.nr = n_twigs /\ Q.nc = Len(branches)
          /\ \A i, j \in 1..n_twigs : Q.e[<<i, j>>] = IF i = j THEN 1 ELSE 0
    /\ Ran("get_tieset_matrix") =>
          /\ B.nr = n_links /\ B.nc = Len(branches)
          /\ \A i, j \in 1..n_links :
                B.e[<<i, n_twigs + j>>] = IF i = j THEN 1 ELSE 0
          /\ \A i \in 1..n_links : \A j \in 1..n_twigs :
                B.e[<<i, j>>] = 0 - Q.e[<<j, n_twigs + i>>]

C9_Witness ==
    /\ Ran("get_tieset_matrix")
    /\ n_twigs >= 2 /\ n_links >= 1
    /\ \E j \in 1..n_twigs : Q.e[<<j, n_twigs + 1>>] # 0

AllStages ==
    <<"build_graph", "select_tree", "get_incidence_matrix", "get_cutset_matrix",
      "get_tieset_matrix", "build_equations", "solve_equations",
      "convert_to_time_domain", "generate_plots">>

\* C10: as soon as build_graph or get_cutset_matrix reports an error,
\* solve_circuit returns exactly that error result (status "error" with a
\* message) and runs no later stage; a success result is returned only after
\* every stage has run in the order graph, tree, incidence, cut-set, tie-set,
\* equations, solve, time-domain, plots.
C10_ShortCircuitAndOrder ==
    /\ error # None =>
          /\ pc = "returned"
          /\ result = error
          /\ IsError(result) /\ "message" \in DOMAIN result
          /\ \/ stages = SubSeq(AllStages, 1, 1)
             \/ stages = SubSeq(AllStages, 1, 4)
    /\ IsError(result) => error # None
    /\ IsSuccess(result) => stages = AllStages
    /\ \E k \in 0..Len(AllStages) : stages = SubSeq(AllStages, 1, k)
    /\ pc \in {"returned", "raised"} => ~ENABLED Next

C10_Witness ==
    /\ pc = "returned" /\ IsError(result)
    /\ stages = SubSeq(AllStages, 1, 4)

\* the place of branch b in the input list
PlaceOf(b) == CHOOSE k \in 1..Len(branches) : branches[k] = b

\* the list bs keeps the relative order of the input list
InInputOrder(bs) ==
    \A i, j \in 1..Len(bs) : i < j => PlaceOf(bs[i]) < PlaceOf(bs[j])

\* column j of the matrix M, as an nr x 1 matrix
Column(M, j) == col_slice(M, j, j)

\* C11: select_tree returns twigs and links each in the relative order of the
\* input list and its third result is twigs followed by links; column j of the
\* incidence, cut-set and tie-set matrices and the unknowns V_j, I_j all refer
\* to the j-th branch of that ordering.
C11_TwigsThenLinksOrdering ==
    (Ran("select_tree") /\ UniqueIds) =>
        /\ InInputOrder(twigs) /\ InInputOrder(links)
        /\ sorted_branches = twigs \o links
        /\ (Ran("get_incidence_matrix") /\ A_full # None) =>
              /\ A_full.nc = Len(sorted_branches) /\ A_red.nc = Len(sorted_branches)
              /\ \A j \in 1..Len(sorted_branches) :
                    {nodes[i] : i \in {r \in 1..Len(nodes) : A_full.e[<<r, j>>] # 0}}
                        = {sorted_branches[j].from, sorted_branches[j].to}
        /\ (Ran("get_cutset_matrix") /\ Q # None) =>
              /\ Q.nc = Len(sorted_branches)
              /\ \A j \in 1..Len(sorted_branches) :
                    LET image == dot(tree_block(A_red, n_twigs), Column(Q, j))
                    IN  \/ image = Column(A_red, j)
                        \/ image = neg(Column(A_red, j))
        /\ Ran("get_tieset_matrix") =>
              /\ B.nc = Len(sorted_branches)
              /\ \A i \in 1..n_links : \A j \in 1..Len(sorted_branches) :
                    B.e[<<i, j>>] =
                        IF j <= n_twigs THEN 0 - Q.e[<<j, n_twigs + i>>]
                        ELSE IF j = n_twigs + i THEN 1 ELSE 0
        /\ Ran("build_equations") =>
              /\ \A j \in 1..Len(sorted_branches) :
                    /\ unknowns[j] = <<"V", sorted_branches[j].id>>
                    /\ unknowns[Len(sorted_branches) + j] = <<"I", sorted_branches[j].id>>
              /\ \A i \in 1..n_twigs : \A j \in 1..Len(sorted_branches) :
                    equations[i].terms[j] =
                        [coef |-> Q.e[<<i, j>>], sym |-> <<"I", sorted_branches[j].id>>]
              /\ \A i \in 1..n_links : \A j \in 1..Len(sorted_branches) :
                    equations[n_twigs + i].terms[j] =
                        [coef |-> B.e[<<i, j>>], sym |-> <<"V", sorted_branches[j].id>>]

C11_Witness ==
    /\ Ran("build_equations") /\ UniqueIds
    /\ sorted_branches # branches
    /\ Len(twigs) >= 2 /\ Len(links) >= 1

\* C12: whenever get_cutset_matrix succeeds, the cut-set and tie-set matrices
\* are orthogonal: Q . B^T is the zero matrix.
C12_CutsetTiesetOrthogonal ==
    Ran("get_tieset_matrix") => dot(Q, transpose(B)) = zeros(n_twigs, n_links)

C12_Witness ==
    /\ Ran("get_tieset_matrix")
    /\ n_twigs >= 1 /\ n_links >= 2
    /\ \A i \in 1..n_links : \E j \in 1..n_twigs : Q.e[<<j, n_twigs + i>>] # 0

\* the row of node n in the node list
RowOf(n) == CHOOSE i \in 1..Len(nodes) : nodes[i] = n

\* the row of the reference node: node '0' if declared, else the last node
ReferenceRow == IF "0" \in SeqSet(nodes) THEN RowOf("0") ELSE Len(nodes)

RECURSIVE ColumnSum(_, _, _)
\* the sum of the first k entries of column j of M
ColumnSum(M, j, k) == IF k = 0 THEN 0 ELSE ColumnSum(M, j, k - 1) + M.e[<<k, j>>]

\* C13: for every circuit with unique branch ids and declared endpoints, each
\* column of A_full has exactly one +1, in the row of the branch's from node,
\* exactly one -1, in the row of its to node, and 0 everywhere else, so every
\* column sums to zero; A_reduced is A_full with exactly the reference node's
\* row removed (node '0' if declared, else the last declared node).
C13_IncidenceColumns ==
    (Ran("get_incidence_matrix") /\ UniqueIds /\ Declared) =>
        /\ A_full.nr = Len(nodes) /\ A_full.nc = Len(sorted_branches)
        /\ \A j \in 1..Len(sorted_branches) :
              /\ {i \in 1..Len(nodes) : A_full.e[<<i, j>>] = 1}
                    = {RowOf(sorted_branches[j].from)}
              /\ {i \in 1..Len(nodes) : A_full.e[<<i, j>>] = 0 - 1}
                    = {RowOf(sorted_branches[j].to)}
              /\ \A i \in 1..Len(nodes) : A_full.e[<<i, j>>] \in {0 - 1, 0, 1}
              /\ ColumnSum(A_full, j, Len(nodes)) = 0
        /\ ref_node = ReferenceRow
        /\ A_red = delete_row(A_full, ReferenceRow)

====
